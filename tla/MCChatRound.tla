---------------------------- MODULE MCChatRound ----------------------------
(* ChatRound with one chat, and one of: a streamed round with tools; two      *)
(* plain rounds; a round that calls agents, with a request to continue.       *)
EXTENDS ChatRound, TLC

CONSTANTS w1, w2, a1, a2, c1

Ask(streaming, tools, c) ==
  [streaming |-> streaming, tools |-> tools, chat |-> c, base |-> {}]

Asked == {w1 :> Ask(TRUE, {"files", "other"}, c1) @@ w2 :> Continue,
          w1 :> Ask(FALSE, {}, c1) @@ w2 :> Ask(FALSE, {}, c1),
          w1 :> Ask(FALSE, {"agent"}, NoChat) @@ w2 :> Continue}
=============================================================================
