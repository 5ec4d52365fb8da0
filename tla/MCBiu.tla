------------------------------- MODULE MCBiu -------------------------------
EXTENDS BiuRefines

Req(codes, segs) == [code : codes, seg : segs]
CodeRequests == Req({"JUMP", "MRD8"}, {"ds"})
DataRequests == Req(ReqCode, {"ds"})
\* No bus cycle and two: between them they take every branch of the machine.
LiveRequests == Req({"JUMP", "MRD16"}, {"ds"})
HaltRequests == Req({"JUMP", "HALT"}, {"cs"})
NoLoads      == {}
CsLoads      == {<<"cs", 1>>}
SsLoads      == {<<"ss", 1>>}
=============================================================================
