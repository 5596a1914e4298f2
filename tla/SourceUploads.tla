---------------------------- MODULE SourceUploads ----------------------------
(***************************************************************************)
(* Uploaded sources: the console creates one from a file or replaces its   *)
(* file, with a request key that it keeps in memory and in the local       *)
(* storage all tabs of the reviewer share; the server stores the file,     *)
(* creates or replaces the input in one transaction that remembers the     *)
(* key, and removes the file unless a source may refer to it.  Answers get *)
(* lost, commits are uncertain, and pages are loaded again at any time.    *)
(*                                                                         *)
(* An upload is numbered: the number is the name of its file, and the key  *)
(* of an attempt is the number of its first upload.                        *)
(***************************************************************************)
EXTENDS Naturals, Sequences, SequencesExt

CONSTANTS Tab, Content,
          MaxUploads, MaxSources, MaxRevision  \* bounds of the model

ASSUME SourceUploadsAssumption == {MaxUploads, MaxSources, MaxRevision} \subseteq Nat \ {0}

VARIABLES
    sources,    \* the rows of sources, with the files they have referred to
    requests,   \* source_creation_requests and source_input_replacements, by key
    disk,       \* the upload directory
    uploads,    \* the requests sent, with the revision on the page that sent them
    tab,        \* a page: its attempts and the upload it waits for
    draft,      \* the attempts in local storage, by target
    seen,       \* history: the contents whose creation the reviewer saw succeed
    forgotten   \* history: those whose creation local storage no longer has, unfinished

uploadVars == <<sources, requests, disk, uploads, tab, draft, seen, forgotten>>

Create == 0  \* the target of a creation; that of a replacement is the source
Target == 0..MaxSources
Upload == 1..MaxUploads
None == [key |-> 0]
Attempt == [key : Upload, content : Content, target : Target, revision : 0..MaxRevision]
Page == [attempt |-> [kind \in {"create", "replace"} |-> None], waits |-> 0]

Source == [files : Seq(Upload), revision : 1..MaxRevision]
Sent == [attempt : Attempt, shown : 0..MaxRevision,
         state : {"sent", "made", "recovered", "changed", "failed", "uncertain"}]

UploadsTypeOK ==
    /\ sources \in Seq(Source)
    /\ \A k \in DOMAIN requests : requests[k] \in Attempt /\ requests[k].key = k
    /\ disk \subseteq DOMAIN uploads
    /\ uploads \in Seq(Sent)
    /\ tab \in [Tab -> [attempt : [{"create", "replace"} -> Attempt \cup {None}],
                        waits : DOMAIN uploads \cup {0}]]
    /\ draft \in [Target -> Attempt \cup {None}]
    /\ seen \subseteq Content /\ forgotten \subseteq Content

UploadsInit ==
    /\ sources = <<>> /\ requests = [k \in {} |-> None]
    /\ disk = {} /\ uploads = <<>>
    /\ tab = [t \in Tab |-> Page]
    /\ draft = [g \in Target |-> None]
    /\ seen = {} /\ forgotten = {}

-----------------------------------------------------------------------------
(* The console. *)

Kind(g) == IF g = Create THEN "create" ELSE "replace"

\* Local storage has a instead of what it had for g.
Keep(g, a) ==
    /\ draft' = [draft EXCEPT ![g] = a]
    /\ forgotten' = IF g = Create /\ draft[g] # None /\ (a = None \/ a.content # draft[g].content)
                    THEN forgotten \cup {draft[g].content} ELSE forgotten

Same(a, fresh) == a # None /\ a.content = fresh.content /\ a.target = fresh.target

\* Mutated: only the memory of the page is looked at.
PreparedHere(t, fresh) ==
    LET mine == tab[t].attempt[Kind(fresh.target)] IN IF Same(mine, fresh) THEN mine ELSE fresh

\* sourceCreationAttempt and sourceInputReplacementAttempt: the second one looks
\* into local storage only when the page remembers nothing.
Prepared(t, fresh) ==
    LET mine == tab[t].attempt[Kind(fresh.target)]
        stored == draft[fresh.target] IN
    CASE Same(mine, fresh) -> mine
      [] Same(stored, fresh) /\ (fresh.target = Create \/ mine = None) -> stored
      [] OTHER -> fresh

\* A page shows the source as it is or as it was.
Send(t, g, c, shown) ==
    /\ tab[t].waits = 0 /\ Len(uploads) < MaxUploads
    /\ IF g = Create THEN shown = 0 ELSE g <= Len(sources) /\ shown \in 1..sources[g].revision
    /\ LET u == Len(uploads) + 1
           a == Prepared(t, [key |-> u, content |-> c, target |-> g, revision |-> shown]) IN
       /\ uploads' = Append(uploads, [attempt |-> a, shown |-> shown, state |-> "sent"])
       /\ tab' = [tab EXCEPT ![t] = [attempt |-> [@.attempt EXCEPT ![Kind(g)] = a], waits |-> u]]
       /\ Keep(g, a)
    /\ UNCHANGED <<sources, requests, disk, seen>>

\* The page hears that all went well and forgets the attempt, whichever one local
\* storage has by then.
HearSuccess(t) ==
    LET u == tab[t].waits IN
    /\ u > 0 /\ uploads[u].state \in {"made", "recovered"}
    /\ LET a == uploads[u].attempt IN
       /\ tab' = [tab EXCEPT ![t] =
                     [attempt |-> [@.attempt EXCEPT ![Kind(a.target)] = None], waits |-> 0]]
       /\ draft' = [draft EXCEPT ![a.target] = None]
       /\ forgotten' = IF a.target = Create /\ draft[Create] \notin {None, a}
                       THEN forgotten \cup {draft[Create].content} ELSE forgotten
       /\ seen' = IF a.target = Create THEN seen \cup {a.content} ELSE seen
    /\ UNCHANGED <<sources, requests, disk, uploads>>

\* It hears of an error or, while the server may still be at work, of nothing.
HearProblem(t) ==
    /\ tab[t].waits > 0
    /\ tab' = [tab EXCEPT ![t].waits = 0]
    /\ UNCHANGED <<sources, requests, disk, uploads, draft, seen, forgotten>>

\* load: the page of a source finds the replacement of local storage committed.
Load(t, i) ==
    /\ draft[i] # None /\ draft[i].key \in DOMAIN requests
    /\ draft' = [draft EXCEPT ![i] = None]
    /\ tab' = [tab EXCEPT ![t].attempt["replace"] = None]
    /\ UNCHANGED <<sources, requests, disk, uploads, seen, forgotten>>

\* The dialog is closed or the page left: what it remembered is gone.
Leave(t) ==
    /\ tab' = [tab EXCEPT ![t] = Page]
    /\ UNCHANGED <<sources, requests, disk, uploads, draft, seen, forgotten>>

\* A draft is a week old, or local storage is cleared or refuses to be written.
LoseDraft(g) ==
    /\ draft[g] # None
    /\ Keep(g, None)
    /\ UNCHANGED <<sources, requests, disk, uploads, tab, seen>>

-----------------------------------------------------------------------------
(* The server.  A request stores the file, runs the transaction and removes  *)
(* the file if no source refers to it; nobody else knows the file meanwhile. *)

Answer(u, state) == uploads' = [uploads EXCEPT ![u].state = state]

\* Mutated: an error removes the file.
KeptIfAnswered(u, state) == IF state = "made" THEN disk \cup {u} ELSE disk

\* keepFile: the answer has the file, with or without an error.
Kept(u, state) == disk \cup {u}

Commit(u) ==
    /\ requests' = [k \in DOMAIN requests \cup {uploads[u].attempt.key} |->
                       IF k \in DOMAIN requests THEN requests[k] ELSE uploads[u].attempt]
    /\ \E state \in {"made", "uncertain"} : Answer(u, state) /\ disk' = Kept(u, state)
    /\ UNCHANGED <<tab, draft, seen, forgotten>>

\* CreateSourceOnce.
CreateSource(u) ==
    LET a == uploads[u].attempt IN
    /\ uploads[u].state = "sent" /\ a.target = Create
    /\ a.key \notin DOMAIN requests /\ Len(sources) < MaxSources
    /\ sources' = Append(sources, [files |-> <<u>>, revision |-> 1])
    /\ Commit(u)

\* ReplaceSourceInput.  It fails while the source is being imported (see Fail).
ReplaceInput(u) ==
    LET a == uploads[u].attempt
        i == a.target IN
    /\ uploads[u].state = "sent" /\ i # Create /\ a.key \notin DOMAIN requests
    /\ sources[i].revision = a.revision /\ a.revision < MaxRevision
    /\ sources' = [sources EXCEPT ![i] = [files |-> Append(@.files, u), revision |-> a.revision + 1]]
    /\ Commit(u)

\* The key is known, with this input or another.
Recover(u) ==
    LET a == uploads[u].attempt IN
    /\ uploads[u].state = "sent" /\ a.key \in DOMAIN requests
    /\ Answer(u, IF requests[a.key] = a THEN "recovered" ELSE "changed")
    /\ UNCHANGED <<sources, requests, disk, tab, draft, seen, forgotten>>

\* The source is no longer the one the reviewer opened.
Refuse(u) ==
    LET a == uploads[u].attempt IN
    /\ uploads[u].state = "sent" /\ a.target # Create /\ a.key \notin DOMAIN requests
    /\ sources[a.target].revision # a.revision
    /\ Answer(u, "changed")
    /\ UNCHANGED <<sources, requests, disk, tab, draft, seen, forgotten>>

\* Nothing is committed; the file stays if the process stopped or the commit failed.
Fail(u) ==
    /\ uploads[u].state = "sent"
    /\ Answer(u, "failed") /\ disk' \in {disk, disk \cup {u}}
    /\ UNCHANGED <<sources, requests, tab, draft, seen, forgotten>>

\* A visibility change, a publication or another reviewer's replacement.
ChangeSource(i) ==
    /\ sources[i].revision < MaxRevision
    /\ sources' = [sources EXCEPT ![i].revision = @ + 1]
    /\ UNCHANGED <<requests, disk, uploads, tab, draft, seen, forgotten>>

UploadsNext ==
    \/ \E t \in Tab : \/ \E g \in Target, c \in Content, shown \in 0..MaxRevision : Send(t, g, c, shown)
                      \/ HearSuccess(t) \/ HearProblem(t) \/ Leave(t)
                      \/ \E i \in 1..MaxSources : Load(t, i)
    \/ \E g \in Target : LoseDraft(g)
    \/ \E u \in DOMAIN uploads : \/ CreateSource(u) \/ ReplaceInput(u) \/ Recover(u)
                                 \/ Refuse(u) \/ Fail(u)
    \/ \E i \in DOMAIN sources : ChangeSource(i)

UploadsSpec == UploadsInit /\ [][UploadsNext]_uploadVars

-----------------------------------------------------------------------------
\* The upload directory has every file that a source refers to or has referred to,
\* whatever was lost, uncertain or sent again, and of the others only those of
\* requests that broke off.
FilesAreKept ==
    LET used == UNION {ToSet(sources[i].files) : i \in DOMAIN sources} IN
    used \subseteq disk /\ \A u \in disk \ used : uploads[u].state = "failed"

\* Retrying a creation whose answer was lost, from any tab and after any reload, does
\* not create another source: there are two from one input only if the reviewer saw
\* the first one succeed, or local storage lost the attempt.
OneSourcePerCreation ==
    \A k, l \in DOMAIN requests :
        /\ requests[k].target = Create /\ requests[l].target = Create
        /\ requests[k].content = requests[l].content /\ k # l
        => requests[k].content \in seen \cup forgotten

\* "Open the current source before replacing it again" (sourceInputReplacementError):
\* who does that, after a replacement was refused, replaces what is now shown.
RefusedMayTryAgain ==
    [][\A v \in DOMAIN uploads' \ DOMAIN uploads :
          (\E u \in DOMAIN uploads : /\ uploads[u].state = "changed"
                                     /\ uploads[u].attempt.key = uploads'[v].attempt.key)
          => uploads'[v].attempt.revision = uploads'[v].shown]_uploadVars
=============================================================================
