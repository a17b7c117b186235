------------------------------ MODULE MCStartup ------------------------------
(***************************************************************************)
(* An instance of Startup for TLC: an int of two bits beside its sign, a    *)
(* port of one, values below, at and above every bound.                     *)
(***************************************************************************)
EXTENDS Startup

SmallCounts   == {"max_queue_depth"}
SmallStrings  == {"api_key", "model_path"}
SmallDefault  == [s \in SmallCounts \cup {"port"} |-> IF s = "port" THEN 1 ELSE 2]
SmallTomlInts == {0, 1, 4}
SmallEnvInts  == {0, 2}

=============================================================================
