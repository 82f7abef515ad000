---------------------------- MODULE MCReporting ----------------------------
(* Small instances of Reporting for TLC. *)
EXTENDS Reporting, TLC

CONSTANTS host, subset, dangling, orphaned

\* A dangling host and an orphaned subset, each found by its own analyzer.
OnePerAnalyzer == [fp \in {host, subset} |-> IF fp = host THEN dangling ELSE orphaned]
=============================================================================
