--------------------------- MODULE MCDockerSandbox ---------------------------
(* Instances of DockerSandbox for TLC. *)
EXTENDS DockerSandbox

=============================================================================
