SPECIFICATION FairSpec
CONSTANTS
  ChunkSize = 2
  Concurrency = 2
  MaxZkChunks = 3
  MaxPackets = 2
  PacketLen = 3
  Transcripts <- AllTranscripts
INVARIANTS
  TranscriptIsWhole
  WitnessSeesRedaction
  HonestProofsAreValid
PROPERTY
  TranscriptSettles
CHECK_DEADLOCK FALSE
