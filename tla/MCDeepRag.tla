------------------------------ MODULE MCDeepRag ------------------------------
(* Requests that stream and requests that wait for the answer.              *)
EXTENDS DeepRag

BothModes == {"stream", "blocking"}
=============================================================================
