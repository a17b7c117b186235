---------------------------- MODULE MCHttpAdapter ----------------------------
(***************************************************************************)
(* An instance of HttpAdapter for TLC: a client behind two trusted proxies, *)
(* a key of two characters, and a request for every check.                  *)
(***************************************************************************)
EXTENDS HttpAdapter, TLC

CONSTANTS
  Outer, Inner,  \* the proxies
  Other          \* an address nobody calls from

(* Threads are interchangeable. *)
AdapterSymmetry == Permutations(Threads)

SmallIps     == Clients \cup {Outer, Inner, Other}
SmallProxies == <<Outer, Inner>>

(* Claims to be somebody else: too few of them for a caller that gets round *)
(* both proxies, and enough, with and without a blank entry in the place    *)
(* that counts.                                                             *)
SmallPrefixes ==
  {<<<<Other>>>>, <<<<Other, Ows>>, <<Inner>>>>, <<<<Ows>>, <<Inner>>>>}

(* No header, half of the key, the key, another scheme, a wrong token of    *)
(* the key's size, and one whose size only has the low byte of the key's.   *)
SmallKey     == <<"k", "l">>
SmallHeaders ==
  {<<>>, <<Bearer, "k">>, <<Bearer, "k", "l">>, <<"Basic ", "k", "l">>,
   <<Bearer, "k", "x">>, <<Bearer, "k", "l", "k", "k", "k", "k">>}

Spoken ==
  [type |-> "json", bytes |-> 3, text |-> "object", model |-> "voxtral-4b",
   input |-> <<"a">>, voice |-> "ar_male", response_format |-> Absent, speed |-> Absent]

(* Every check at its limit from the right side, and each failed by itself; *)
(* one request fails two.                                                   *)
SmallBodies ==
  {Spoken,
   [Spoken EXCEPT !.bytes = MaxBodyBytes, !.input = <<"a", " ">>, !.response_format = "",
                  !.speed = 1],
   [Spoken EXCEPT !.input = <<"a", Continuation>>, !.response_format = "wav", !.speed = 16],
   [Spoken EXCEPT !.input = <<"a", Continuation, "b">>],
   [Spoken EXCEPT !.voice = "nobody", !.speed = WrongType]}
  \cup {[Spoken EXCEPT !.type = v] : v \in {"", "text"}}
  \cup {[Spoken EXCEPT !.bytes = MaxBodyBytes + 1]}
  \cup {[Spoken EXCEPT !.text = v] : v \in {"malformed", "array"}}
  \cup {[Spoken EXCEPT !.model = v] : v \in {Absent, WrongType, "gpt"}}
  \cup {[Spoken EXCEPT !.input = v] :
          v \in {Absent, WrongType, <<>>, <<" ", " ">>, <<"a", " ", "b">>}}
  \cup {[Spoken EXCEPT !.voice = v] : v \in {Absent, WrongType, "nobody"}}
  \cup {[Spoken EXCEPT !.response_format = v] : v \in {WrongType, "mp3"}}
  \cup {[Spoken EXCEPT !.speed = v] : v \in {WrongType, 0, 17}}

=============================================================================
