----------------------------- MODULE MCDnsCache -----------------------------
(* Four blocks, one of them twice as large; room for two small ones.       *)
EXTENDS DnsCache, FiniteSetsExt

MCEntries == 1..4
SizeOf(e) == IF e = 4 THEN 2 ELSE 1
MCBytes == [S \in SUBSET MCEntries |-> MapThenSumSet(SizeOf, S)]
=============================================================================
