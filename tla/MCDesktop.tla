----------------------------- MODULE MCDesktop -----------------------------
(* Instance of Desktop for TLC. *)
EXTENDS Desktop

CONSTANTS c1, c2

MCCoworkers == {c1, c2}
MCPack == {c2}

MCBindings ==
    {Automatic,
     [profile |-> "efficient", provider |-> "claude", model |-> "light"],
     [profile |-> "deep", provider |-> "codex", model |-> "strong"]}
============================================================================
