----------------------------- MODULE MCDelivery -----------------------------
(* Values for the model-checking run of Delivery.                          *)
EXTENDS Delivery

CONSTANTS w1, w2

MCServed == {"dataset.ttl", "history?full"}
MCCallTimes == {0, 5}
=============================================================================
