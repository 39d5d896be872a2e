---------------------------- MODULE MCAutoDetect ----------------------------
(***************************************************************************)
(* AutoDetect on every short string over the bytes it tells apart, on      *)
(* every longer one that opens with an empty PRI, and on month prefixes.   *)
(* 60 and 62 are characters of a host name as well.                        *)
(***************************************************************************)
EXTENDS AutoDetect

Strings(S, n) == UNION {[1..k -> S] : k \in 0..n}

SmallInputs == Strings({32, 48, 49, 58, 60, 62, 65}, 5)
               \cup {<<60, 62>> \o s : s \in Strings({32, 45, 48, 49, 58}, 5)}
               \cup {m \o s : m \in Months \cup {<<74, 97, 116>>}, s \in Strings({32, 45}, 2)}
               \cup {<<49, 48, 49, 48>> \o s : s \in Strings({45, 49}, 2)}
               \cup {<<60, 62, 42>>}
============================================================================
