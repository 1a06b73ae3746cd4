------------------------- MODULE MCFeishuWorkbench --------------------------
(* One chat, a text message and a card of another feature, two runs at a time. *)
EXTENDS FeishuWorkbench, TLC

CONSTANTS chat1, msg1, msg2, card1, card2, other, other2, s1, s2, repo, t1, t2

MCClassOf    == (msg1 :> "chat_text") @@ (msg2 :> "requirement_text")
MCChatOf     == [m \in Messages |-> chat1]
MCOtherCards == [k \in {other, other2} |-> "requirement_click"]
MCSymmetry   == Permutations({s1, s2}) \cup Permutations({t1, t2}) \cup Permutations({card1, card2})
                \cup Permutations({other, other2})
=============================================================================
