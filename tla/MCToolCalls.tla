----------------------------- MODULE MCToolCalls -----------------------------
EXTENDS ToolCalls, TLC

CONSTANTS c1, c2, c3, u

MCBatches == { c1 :> "write" @@ c2 :> "shell" @@ c3 :> "write",
               c1 :> "bank" @@ c2 :> "click" @@ c3 :> "connect",
               c1 :> "tool" @@ c2 :> "tool" @@ c3 :> "read" }
=============================================================================
