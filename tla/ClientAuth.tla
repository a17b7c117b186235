------------------------------ MODULE ClientAuth ------------------------------
(***************************************************************************)
(* Who sent a request: extract_client_ip, check_bearer_auth and             *)
(* constant_time_equals.                                                    *)
(*                                                                          *)
(* A header is not a string but what the code tells apart in it:            *)
(* X-Forwarded-For is the sequence of its entries between commas, an entry  *)
(* a sequence of blanks with at most one address among them; Authorization  *)
(* is a sequence of characters, of which "Bearer " counts as one.           *)
(***************************************************************************)
EXTENDS Integers, Sequences, FiniteSets, FiniteSetsExt

CONSTANTS
  ApiKey,       \* config: api_key, a sequence of characters
  TrustProxy,   \* config: trust_proxy
  TrustedHops,  \* config: trusted_proxy_hops
  ByteValues    \* how many values a uint8_t has

ASSUME ClientAuthAssumption ==
  /\ ApiKey \in Seq(STRING)
  /\ TrustProxy \in BOOLEAN
  /\ TrustedHops \in Int
  /\ ByteValues \in Nat \ {0}

Ows    == "blank"
Bearer == "Bearer "

-----------------------------------------------------------------------------
(* Variant: the sizes are not compared. *)
ConstantTimeEqualsNoSize(a, b) ==
  \A i \in 1 .. Min({Len(a), Len(b)}) : a[i] = b[i]

(* The accumulator starts as the low byte of the exclusive or of the sizes, *)
(* which is zero exactly if their low bytes are the same.                   *)
ConstantTimeEquals(a, b) ==
  /\ Len(a) % ByteValues = Len(b) % ByteValues
  /\ \A i \in 1 .. Min({Len(a), Len(b)}) : a[i] = b[i]

(* check_bearer_auth: whether the request is authenticated. *)
CheckBearerAuth(header) ==
  /\ Len(header) > 1
  /\ Head(header) = Bearer
  /\ ConstantTimeEquals(Tail(header), ApiKey)

-----------------------------------------------------------------------------
(* The blanks at both ends go. *)
Trim(entry) ==
  LET solid == {i \in DOMAIN entry : entry[i] # Ows}
  IN  IF solid = {} THEN <<>> ELSE SubSeq(entry, Min(solid), Max(solid))

(* Variant: one hop too many is skipped. *)
ExtractClientIpOneMore(forwarded, remote) ==
  LET left == Len(forwarded) - TrustedHops
  IN  IF ~TrustProxy \/ left < 1 \/ Trim(forwarded[left]) = <<>>
      THEN remote
      ELSE Head(Trim(forwarded[left]))

(* The loop takes TrustedHops - 1 entries off the right, and gives up when  *)
(* no comma is left; a hop count below 1 takes none.  The last entry that   *)
(* remains is the client, unless it is blank.                               *)
ExtractClientIp(forwarded, remote) ==
  LET skipped == Max({0, TrustedHops - 1})
      left    == Len(forwarded) - skipped
  IN  IF ~TrustProxy \/ left < 1 \/ Trim(forwarded[left]) = <<>>
      THEN remote
      ELSE Head(Trim(forwarded[left]))

=============================================================================
