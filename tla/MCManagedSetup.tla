--------------------------- MODULE MCManagedSetup ---------------------------
\* Small instances of ManagedSetup for TLC.
EXTENDS ManagedSetup, TLC

\* Threads, servers, host keys, key ids and names are interchangeable.
Symmetry == Permutations(Setups) \cup Permutations(Servers) \cup Permutations(HostKeys)
              \cup Permutations(Keys) \cup Permutations(Names)

\* What still matters of a setup's record: the kind of call and the fingerprint until
\* the host key is settled, the key to reuse until it has one, the receipt until the
\* remote account is rolled back, the owner's edits until they are overtaken.
SettledPcs == ForwardPcs \ (HostPcs \cup {"handshake", "status"})
ClosingPcs == {"rbKey", "rbHost", "rbHostWrite", "end"}

Pending(t) ==
    [op[t] EXCEPT
        !.undo   = "clean",
        !.mode   = IF pc[t] \in SettledPcs \cup RollbackPcs THEN "none" ELSE @,
        !.fp     = IF pc[t] \in SettledPcs \cup RollbackPcs THEN None ELSE @,
        !.reuse  = IF pc[t] \in (SettledPcs \ {"auth", "key"}) \cup RollbackPcs THEN None ELSE @,
        !.made   = IF pc[t] \in ClosingPcs THEN @ \ Receipt ELSE @,
        !.behind = @ /\ intent[op[t].server] # "overtaken"]

\* For the run without profile names, whose setups are bootstraps and confirmations,
\* and without the property about quiet failures: states that differ only in what no
\* setup asks for again, in the files a lost key pair left, or in quiet have the same
\* futures.
UpToOutcome ==
    <<hostKey, known, [k \in Keys |-> IF keyFiles[k] = "left" THEN "gone" ELSE keyFiles[k]],
      sshDir, akFile, authorized, profile, pc, [t \in Setups |-> Pending(t)],
      accepted, issued, intent>>
=============================================================================
