CONSTANTS
  TP_SF_DATA_MAX = 2
  TP_FF_DATA_MAX = 1
  TP_CF_DATA_MAX = 2
  SnMod = 2
  rx_capacity = 8
  tx_capacity = 8
  FcBlockSizesA = {0}
  FcBlockSizesB = {0, 2}
  fc_stmin = 0
  n_as = 3
  n_bs = 3
  n_cr = 3
  max_wait_frames = 1
  Sinks = {"free", "willing"}
  LengthsA = {7}
  LengthsB = {2}
  MaxSends = 2
SPECIFICATION FairSpec
INVARIANTS DeliveredIntact LossIsReported
PROPERTIES EveryMessageArrives
