-------------------------- MODULE MCSidecarGateway --------------------------
EXTENDS SidecarGateway

CONSTANTS p1, p2

Env == {[no_auth |-> ""], [token |-> "e"], [token |-> " "], [no_auth |-> "yes"],
        [signed_request_secret |-> "s"]}

File == {[port |-> "1"], [host |-> "remote"], [host |-> "remote", allow_remote_bind |-> "yes"],
         [host |-> "remote", allow_remote_bind |-> "yes", no_auth |-> "yes"], [token |-> "f"]}

Cli == {[host |-> "loopback"], [log_level |-> "info"], [token |-> ""], [token |-> "c"],
        [allowed_origins |-> "o"], [tls_cert |-> "pem"]}

Fresh == {"g1", "g2", "g3"}
Routes == {"cheap"}
=============================================================================
