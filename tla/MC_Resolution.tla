--------------------------- MODULE MC_Resolution ---------------------------
\* Nodes for model checking: fixtures of one pair of teams that meets twice, and
\* teams whose names, codes and spellings overlap.
EXTENDS Resolution

Make(type, local, label, aliases, market, method) ==
  [type |-> type, local |-> local, label |-> label, aliases |-> aliases,
   evidence |-> <<market>>, method |-> method]
Fixture(day, market, method) ==
  Make("MATCH", Id("match", <<"bra-mar">>, day), "bra-mar", {}, market, method)
Team(label, aliases, market, method) ==
  Make("TEAM", Id("team", <<label>>, Undated), label, aliases, market, method)

MCMeeting ==
  {Fixture(1, "m1", "deterministic"), Fixture(2, "m2", "deterministic"),
   Fixture(Undated, "m1", "llm"), Fixture(3, "m3", "llm"),
   Fixture(2, "m4", "official_bracket"), Fixture(1, "m1", "proposition_compiler")}
MCUnnamed == Make("MATCH", Id("any", <<"n1">>, Undated), "bra-mar", {"fifa-7"}, "m2", "llm")
MCMatches ==
  MCMeeting \cup {MCUnnamed, Fixture(5, "m3", "deterministic"), Fixture(5, "m4", "official_bracket")}
\* The LLM gives a known fixture a label of its own
MCRelabelled ==
  MCMeeting \cup {MCUnnamed,
    Make("MATCH", Id("match", <<"bra-mar">>, 1), "opener", {"fifa-7"}, "m2", "llm")}
MCTeams ==
  {Team("curacao", {"kor"}, "m1", "deterministic"),
   Team("korea-republic", {}, "m2", "deterministic"),
   Team("south-korea", {"kor"}, "m3", "llm"),
   Team("curacoa", {"kor"}, "m4", "llm"),
   Make("TEAM", Id("any", <<"n1">>, Undated), "kor", {"korea-republic"}, "m4", "llm"),
   Make("MARKET", Id("market", <<"m1">>, Undated), "curacao", {}, "m1", "deterministic"),
   Make("OUTCOME", Id("any", <<"o1">>, Undated), "curacao", {}, "m1", "llm")}
MCInputs == {MCMatches, MCRelabelled, MCTeams}
MCChain == {MCMatches}

MCLabels == {"opener", "bra-mar", "fifa-7", "curacao", "curacoa", "korea-republic", "south-korea",
             "kor", "n1", "o1"}
MCCodes == [c \in {"kor"} |-> "korea-republic"]
MCNames == [v \in {"korea-republic"} |-> "south-korea"]
MCScore ==
  [p \in MCLabels \X MCLabels |->
     IF p[1] = p[2] THEN 2 ELSE IF p \in {"curacao", "curacoa"} \X {"curacao", "curacoa"} THEN 1 ELSE 0]
=============================================================================
