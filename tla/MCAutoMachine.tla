--------------------------- MODULE MCAutoMachine ---------------------------
(***************************************************************************)
(* AutoMachine with the repository's options: none turns best effort on    *)
(* and asserts a machine type at once.                                     *)
(***************************************************************************)
EXTENDS AutoMachine

Opt(n, b, s) == [needs |-> n, be |-> b, safe |-> s]

(* WithBestEffort, WithYear, WithCompliantMsg and their wrapped forms. *)
Repository3164 == {Opt("any", "after", FALSE), Opt("rfc3164", "no", FALSE),
                   Opt("rfc5424", "no", TRUE), Opt("any", "before", TRUE)}
Repository5424 == {Opt("any", "after", FALSE), Opt("rfc5424", "no", FALSE),
                   Opt("rfc3164", "no", TRUE)}

ASSUME RepositoryOptions == ProbeSees
============================================================================
