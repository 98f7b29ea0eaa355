--------------------------- MODULE MCRemoteServer ---------------------------
(* Constants for model-checking RemoteServer: a profile that is served     *)
(* under its own URL and under the URL of its key, and an inbox path.      *)
EXTENDS RemoteServer

CONSTANTS profileUrl, keyUrl, profilePath, inboxPath

MCUrls == {profileUrl, keyUrl}
MCPaths == {profilePath, inboxPath}
MCDocPath == [u \in MCUrls |-> profilePath]

Send(m, p, k) == [method |-> m, path |-> p, kind |-> k]

\* A server that fetches the profile and delivers to the inbox.
Plain == {Send("get", profilePath, "good"), Send("post", inboxPath, "good")}

\* The same, with deliveries that do not parse and peers that hang up.
Faulty == Plain \cup {Send("post", inboxPath, "malformed"),
                      Send("post", inboxPath, "hangup"),
                      Send("get", profilePath, "hangup")}
=============================================================================
