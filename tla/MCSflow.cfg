CONSTANTS
  Sizes = {0, 1, 5}
  Datagrams <- MCDatagrams
SPECIFICATION Spec
INVARIANTS InStep HandedOn
