----------------------------- MODULE MCTransport -----------------------------
(***************************************************************************)
(* Instances of Transport for TLC: a header of two bytes whose second byte *)
(* is the length field, payloads that are empty or longer than a byte so   *)
(* that a read can stop at every kind of place.                            *)
(***************************************************************************)
EXTENDS Transport

MCPayloadLength == {0, 2}
=============================================================================
