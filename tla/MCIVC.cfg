SPECIFICATION FairSpec
CONSTANTS
  Frames = {f1, f2}
  NoFrame = NoFrame
  NFrames = 2
  CountModulus = 5
  Senders <- BPMPOnly
  Pollers <- CCPLEX
  MaxRestarts = 2
  Prompt = TRUE
INVARIANT NoLostWakeup
PROPERTIES FifoSpec Reestablished FullEnds PeerCountsAdvance
CHECK_DEADLOCK FALSE
