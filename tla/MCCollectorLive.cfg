SPECIFICATION FairSpec
CONSTANTS
  Probes <- MCProbes
  Strangers = {"x"}
  Listeners = {"udp2055"}
  PortOf <- MCPortOf
  NumWorkers = 2
  Tids = {"t"}
  MaxPkts = 2
PROPERTIES ArrivedIsDissected ShutdownEnds
