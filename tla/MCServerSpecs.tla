--------------------------- MODULE MCServerSpecs ---------------------------
(***************************************************************************)
(* An instance of ServerSpecs for TLC: values on both sides of each limit, *)
(* once for the size and once for version and window.                      *)
(***************************************************************************)
EXTENDS ServerSpecs

SizeSpecs  == {s \in UserSpecType : s.version = <<>> /\ s.window = NoWindow}
OtherSpecs == {s \in UserSpecType : s.class = NoClass /\ s.cpu = Missing /\ s.storage = 100
                                /\ s.name = 63}
AllSpecs   == SizeSpecs \cup OtherSpecs
=============================================================================
