---------------------------- MODULE MCSriDriver ----------------------------
(***************************************************************************)
(* A small instance of SriDriver.  The payloads: one without a sync byte,  *)
(* one whose sum is the first sync byte, one that ends in a whole sync.    *)
(***************************************************************************)
EXTENDS SriDriver

SomePayloads == {<<"xx", "xx", "xx">>, <<"xx", "xx", "AA">>, <<"xx", "AA", "55">>}

=============================================================================
