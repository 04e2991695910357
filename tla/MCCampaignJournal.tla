-------------------------- MODULE MCCampaignJournal --------------------------
EXTENDS CampaignJournal, TLC

Symmetric == Permutations(Processes) \cup Permutations(Keys)

\* What a process has kept of a timeline it will not name again, or of a
\* directory or head that is no longer the last, is never used: files only get
\* more. States that differ in that alone count as one.
Appending(p, t) == InPath(p, t) /\ proc[p].pc \in {"commit", "mark", "publish"}
Serves(p, t)    == t \in {serves[p], active, proc[p].timeline}

UsefulMemo(p, t) == Serves(p, t) /\ memo[p][t] = SignatureOf(t)
UsefulIndex(p, t) ==
    IF /\ index[p][t] # Nothing /\ Serves(p, t)
       /\ Appending(p, t) \/ index[p][t].files = Length(t)
    THEN index[p][t] ELSE Nothing
UsefulCache(p, t) ==
    IF /\ cache[p][t] # Nothing /\ Serves(p, t)
       /\ Appending(p, t) \/ cache[p][t].head = manifest[t].head
    THEN cache[p][t] ELSE Nothing
View == <<diskVars, proc, callVars, seenVars, faults,
          [p \in Processes, t \in Timelines |->
             <<UsefulMemo(p, t), UsefulIndex(p, t), UsefulCache(p, t)>>]>>
==============================================================================
