SPECIFICATION Spec
CONSTANTS
  Tx = {t1, t2}
  NoTx = NoTx
  Path = {"storePage", "publish"}
INVARIANTS SourceRowFirst
