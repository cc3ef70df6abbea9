---------------------------- MODULE MCTokeniser ----------------------------
(* The values at and around every edge of the Tokeniser's tables, for TLC. *)
EXTENDS Tokeniser

Edges(table) == {table[k] : k \in DOMAIN table}
MCOffsets == LET far == UNION {{e - 1, e, e + 1} : e \in Edges(PRICE_LOG_FAR_EDGE)}
             IN  -21..21 \cup far \cup {-e : e \in far} \cup {-2000, 2000}
MCSizes == {s \in UNION {{e - 1, e, e + 1} : e \in Edges(VOLUME_LOG)} : s \in 1..45548}
=============================================================================
