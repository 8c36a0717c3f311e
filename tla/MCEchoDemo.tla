----------------------------- MODULE MCEchoDemo -----------------------------
(***************************************************************************)
(* EchoDemo with two sequence numbers: a client that sends three requests, *)
(* and variants of it and of its server that differ in one setting.        *)
(***************************************************************************)
EXTENDS EchoDemo

C == [servers |-> <<0, 1>>, count |-> 3, virtual |-> "v", client |-> "c",
      ca |-> "none", cert |-> "none"]
S == [listens |-> <<0, 1>>, virtual |-> "v", client |-> "c", cert |-> "none",
      clientCA |-> "none"]

(* One setting differs from C or S; or one path, one request, and every    *)
(* combination of certificates, also of those that do not load.            *)
MCConfigs ==
  {<<C, S>>} \cup
  ({[C EXCEPT !.servers = << >>], [C EXCEPT !.count = 0], [C EXCEPT !.virtual = "bad"],
    [C EXCEPT !.ca = "bad"]} \X {[S EXCEPT !.listens = <<0>>]}) \cup
  ({[C EXCEPT !.servers = <<1>>, !.count = 1]} \X
     {S, [S EXCEPT !.listens = << >>], [S EXCEPT !.listens = <<0>>],
      [S EXCEPT !.client = "bad"], [S EXCEPT !.virtual = "w"], [S EXCEPT !.client = "d"],
      [S EXCEPT !.clientCA = "bad"]}) \cup
  ({[C EXCEPT !.servers = <<0>>, !.count = 1, !.ca = ca, !.cert = cert] :
      ca \in {"none", "bad", "good"}, cert \in {"none", "half", "bad", "other", "good"}} \X
   {[S EXCEPT !.listens = <<0>>, !.cert = cert, !.clientCA = ca] :
      ca \in {"none", "bad", "good"}, cert \in {"none", "half", "bad", "other", "good"}})
=============================================================================
