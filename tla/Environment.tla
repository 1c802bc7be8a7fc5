------------------------------ MODULE Environment ------------------------------
(***************************************************************************)
(* The environment variables behind the settings that can be changed while *)
(* the server runs.  They are read twice: by config.Load, for the parts,   *)
(* which replace some values by defaults of their own, and by              *)
(* EnvSnapshotFromEnv, as the base under the overrides.                    *)
(*                                                                         *)
(* A text is Unset, Junk, a number in tenths with whether it is written as *)
(* an integer ("100" is, "1e2" and "0.5" are not), or, for codes, the set  *)
(* of its items between commas, each a sequence of words between blanks.   *)
(***************************************************************************)
EXTENDS Integers, Sequences

CONSTANTS Unset, Junk

One == 10

ParseInt(text) == IF text \notin {Unset, Junk} /\ text.whole THEN text.tenths ELSE 0

ParseFloat(text) == IF text \notin {Unset, Junk} THEN text.tenths ELSE 0

Codes(items) == [codes |-> items \ {<<>>}]

Parsed(n, isValid, default) == IF isValid THEN [tenths |-> n] ELSE default

\* What the parts start with: counts of bytes and days, the watermark (cache.Open
\* lets one pass), rates (fractions count) and invite codes, blanks inside included.
Load(kind, text, default) ==
    LET n == IF kind = "count" THEN ParseInt(text) ELSE ParseFloat(text)
    IN  CASE kind \in {"count", "rate"} -> Parsed(n, n > 0, default)
          [] kind = "watermark"         -> Parsed(n, n > 0 /\ n <= One, default)
          [] kind = "codes"             -> IF text = Unset THEN default ELSE Codes(text)

\* The base under the overrides: rates are integers, a watermark is below one, and
\* every word is a code.
Snapshot(kind, text, default) ==
    LET n == IF kind = "watermark" THEN ParseFloat(text) ELSE ParseInt(text)
    IN  CASE kind \in {"count", "rate"} -> Parsed(n, n > 0, default)
          [] kind = "watermark"         -> Parsed(n, n > 0 /\ n < One, default)
          [] kind = "codes"             -> IF text = Unset THEN default
                                           ELSE Codes(UNION {{<<item[i]>> : i \in DOMAIN item} : item \in text})
=============================================================================
