---------------------------- MODULE MC_LlmCalls ----------------------------
(***************************************************************************)
(* Instances of LlmCalls for TLC: events of up to three markets, small,     *)
(* middling or too large for any prompt, under limits of which each is the  *)
(* tightest in turn.                                                        *)
(***************************************************************************)
EXTENDS LlmCalls, SequencesExt

MCSizes == {1, 3, 9}
MCLimit(markets, prompt, answer, context) ==
  [markets |-> markets, prompt |-> prompt, answer |-> answer, context |-> context]

MCLimits ==
  {MCLimit(2, 20, 20, 20), MCLimit(4, 8, 20, 20), MCLimit(4, 20, 4, 20), MCLimit(4, 20, 20, 13)}

MCEvents ==
  BoundedSeq(MCSizes, 3) \cup {<<1, 1, 1, 1, 1>>, <<3, 1, 1, 9>>, <<1, 3, 1, 3>>}

MCInputs == [sizes : MCEvents, limits : MCLimits]
=============================================================================
