CONSTANTS
  RingSize <- const_RingSize
  Packet <- const_Packet
  ZeroPacket <- const_ZeroPacket
  NoPacket = NoPacket
  Reports <- const_Reports
  Transfers <- const_Transfers
SPECIFICATION PathSpec
INVARIANTS PathTypeOK SampleFaithful ClientsAgree
PROPERTY RingIsQueue
