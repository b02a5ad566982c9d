---------------------------- MODULE MCAlertWebhook ----------------------------
(* Small instances of the webhook. *)
EXTENDS AlertWebhook

CONSTANTS p1, h1

Labels(name, severity, deployment, pod) ==
    [alertname |-> name, severity |-> severity, namespace |-> "prod",
     deployment |-> deployment, statefulset |-> None, pod |-> pod]
Alert(f, labels) == [status |-> "firing", fingerprint |-> f, startsAt |-> 1, labels |-> labels]

\* Two workloads that are out of memory in the same second, the end of one of
\* the alerts, and an alert nobody routes.
OomApi == Alert("f1", Labels("KubePodOOMKilled", "critical", "api", "api-5f7b8c9d-xyz"))
OomWeb == Alert("f2", Labels("KubePodOOMKilled", "critical", "web", "web-7c6d5b4f-abc"))
Watchdog == Alert("f3", Labels("Watchdog", "info", "api", None))
Resolved == [OomApi EXCEPT !.status = "resolved"]

OneReplica == {p1}
OneHandler == {h1}
SameReplica == [h \in Handlers |-> p1]
OneAlert == {OomApi}
MixedAlerts == {OomApi, OomWeb, Resolved, Watchdog}
Api == {<<OomApi>>}
MixedRequests == Api \cup {<<Resolved, Watchdog>>, <<OomWeb, OomApi>>}
EveryName == DOMAIN DefaultRoutes
NoName == {}
NoFaults == {}
AllFaults == {"error", "lost", "crash"}
=============================================================================
