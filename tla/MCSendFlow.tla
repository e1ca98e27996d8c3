----------------------------- MODULE MCSendFlow -----------------------------
(* A small instance of SendFlow for TLC: Storage, an address that is empty *)
(* at first, a contract with a fallback, one without set that the policy   *)
(* does not allow, and a text that is no address.                          *)
EXTENDS SendFlow, TLC

CONSTANTS s1, s2, storage, empty, sink, other, word

MCKind == [a \in Addresses |->
  CASE a = storage -> "storage" [] a = empty -> "readonly" [] a = sink -> "swallowing"
    [] a = other -> "lacking" [] a = word -> "text"]
=============================================================================
