-------------------------- MODULE MCSpeechHandler --------------------------
(***************************************************************************)
(* Instances of SpeechHandler for TLC.                                      *)
(***************************************************************************)
EXTENDS SpeechHandler, TLC

(* Requests are interchangeable: sound for the safety runs. *)
RequestSymmetry == Permutations(Jobs)

(* A request that passes, and one for each way of failing. *)
Spoken ==
  [type |-> "json", bytes |-> 1, text |-> "object", model |-> "voxtral-4b",
   input |-> <<"a">>, voice |-> "ar_male", response_format |-> Absent, speed |-> Absent]

SmallBodies ==
  {Spoken,
   [Spoken EXCEPT !.voice = "nobody"],
   [Spoken EXCEPT !.bytes = MaxBodyBytes + 1],
   [Spoken EXCEPT !.input = WrongType]}

=============================================================================
