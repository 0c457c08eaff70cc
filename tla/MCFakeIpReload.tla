--------------------------- MODULE MCFakeIpReload ---------------------------
EXTENDS FakeIpReload

MCV6Of == [n \in 0..(Wrap - 1) |-> n]
=============================================================================
