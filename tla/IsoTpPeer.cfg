CONSTANTS
  TP_SF_DATA_MAX = 2
  TP_FF_DATA_MAX = 1
  TP_CF_DATA_MAX = 2
  SnMod = 3
  rx_capacity = 5
  tx_capacity = 8
  FcBlockSizes = {0}
  fc_stmin = 0
  n_as = 3
  n_bs = 2
  n_cr = 2
  max_wait_frames = 1
  Sinks = {"free"}
  Elapsed = {1}
  Lengths = {2, 6}
  FfTotals = {4, 6}
  BlockSizes = {0, 1}
  StMins = {2}
  MaxSends = 2
  MaxHeard = 2
  MaxGap = 2
SPECIFICATION PeerFairSpec
INVARIANT SentWholeOrReported
PROPERTIES PacingKept SessionsEnd
