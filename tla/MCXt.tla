-------------------------------- MODULE MCXt -------------------------------
EXTENDS Harness8088

Req(codes) == [code : codes, seg : {"ds"}]
MemRequests  == Req({"MRD8", "MWR16", "IOWR8", "JUMP"})
PortRequests == Req({"IORD8"})
NoLoads      == {}
VideoLoads   == {<<"ds", 4>>}
=============================================================================
