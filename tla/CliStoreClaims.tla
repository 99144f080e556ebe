--------------------------- MODULE CliStoreClaims ---------------------------
(* What the repository says of the offline cache and the code does not do. *)
EXTENDS CliStore

\* "Full content included so articles are readable offline, not just titles"
\* (docs/offline.md:69): content that is cached is not lost while articles stay
\* cached, unless the eviction that ends a replay (docs/offline.md:142) took it.
KeepsContent ==
    [][("content" \in cached /\ "articles" \in cached' /\ ~Emptied) =>
          "content" \in cached']_cliVars
=============================================================================
