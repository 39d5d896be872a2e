----------------------------- MODULE MCRfc3195 -----------------------------
(***************************************************************************)
(* Rfc3195 with the header lines and entries that tell its branches apart. *)
(***************************************************************************)
EXTENDS Rfc3195

Line(k, m, n) == [u |-> "header", ok |-> TRUE, kw |-> k, more |-> m, size |-> n]

(* Answers of every size around the limit 1 and an intermediate piece, both *)
(* frames that end an exchange, a NUL that may not have a payload, flow     *)
(* control, and a line that is no header.                                   *)
SmallHeaders == {Line("ANS", FALSE, 1), Line("ANS", TRUE, 2), Line("MSG", FALSE, 1),
                 Line("NUL", FALSE, 0), Line("NUL", FALSE, 1), Line("ERR", FALSE, 0),
                 Line("SEQ", FALSE, 0), NoHeader}

LooksLikeNUL == {Line("NUL", FALSE, 0)}

Entry(f, s, t, h, i) == [facility |-> f, severity |-> s, timestamp |-> t, fqdn |-> h, ip |-> i]

(* The corners of the ranges the DTD and RFC 3164 allow. *)
SmallEntries == {Entry(23, 7, "ok", "fqdn", "ip"), Entry(24, 7, Missing, Missing, "ip"),
                 Entry(32, 8, "bad", "fqdn", Missing), Entry(256, 10, Missing, Missing, Missing)}
============================================================================
