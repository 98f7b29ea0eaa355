--------------------------- MODULE MCCapabilities ---------------------------
(***************************************************************************)
(* Three levels under one name and a second name next to it.               *)
(***************************************************************************)
EXTENDS Capabilities

MCNames == {"s2s", "inbox", "post", "webfinger"}

MCIds == { <<"s2s">>, <<"s2s", "inbox">>, <<"s2s", "inbox", "post">>,
           <<"webfinger">> }
=============================================================================
