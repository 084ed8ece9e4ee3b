---------------------------- MODULE MCAgentLoop ----------------------------
(* Constants of the TLC runs of AgentLoop. *)
EXTENDS AgentLoop

CONSTANTS d1, d2, r1, r2, local, remote, unlisted, a1, p1

OneDriver == {d1}
TwoDrivers == {d1, d2}
OneRequest == {r1}
TwoRequests == {r1, r2}
LocalAndRemote == {local, remote}
LocalAndUnlisted == {local, unlisted}
LocalOnly == {local}
Nothing == {}
RemoteOnly == {remote}
OneArtifact == {a1}
OneApprovalId == {p1}

=============================================================================
