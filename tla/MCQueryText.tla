---------------------------- MODULE MCQueryText -----------------------------
(***************************************************************************)
(* QueryText for TLC: all source strings of up to four units, and those of *)
(* five that begin with a statement of one unit and have a second literal  *)
(* to choose from.  Two minus signs in a row begin a comment and are left  *)
(* out.                                                                    *)
(***************************************************************************)
EXTENDS QueryText

Units == {"a", "1", "-", " ", ";", "$1", "l"}

MCSources ==
  LET strings == UNION {[1..n -> Units] : n \in 1..4}
                   \cup {<<u, ";">> \o t : u \in {"a", "1"}, t \in [1..3 -> Units \cup {"2"}]}
  IN  {s \in strings : \A i \in 1..Len(s)-1 : ~(s[i] = "-" /\ s[i + 1] = "-")}
=============================================================================
