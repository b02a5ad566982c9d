----------------------------- MODULE AlertRouter -----------------------------
(***************************************************************************)
(* operator/internal/remediate/router.go: from the labels of an alert to    *)
(* the spec of a Remediation.  A label that is absent or empty is None.     *)
(***************************************************************************)

None == "none"

LabelNames == {"alertname", "severity", "namespace", "deployment", "statefulset", "pod"}

\* The four alerts DefaultRouterConfig knows.
DefaultRoutes == [KubePodOOMKilled    |-> "IncreaseMemory",
                  ContainerOOMKilled  |-> "IncreaseMemory",
                  KubeHpaMaxedOut     |-> "ScaleUp",
                  KubePodCrashLooping |-> "RollbackImage"]

\* The name in a pod label is used as it is.
ExtractDeploymentNameFromPod(pod) == pod

HasTarget(labels) ==
    /\ labels.namespace # None
    /\ \E l \in {"deployment", "statefulset", "pod"} : labels[l] # None

\* The first of the deployment, statefulset and pod labels that is there.
ExtractTarget(labels) ==
    CASE labels.deployment # None ->
             [kind |-> "Deployment", name |-> labels.deployment, namespace |-> labels.namespace]
      [] labels.deployment = None /\ labels.statefulset # None ->
             [kind |-> "StatefulSet", name |-> labels.statefulset, namespace |-> labels.namespace]
      [] OTHER ->
             [kind |-> "Deployment", name |-> ExtractDeploymentNameFromPod(labels.pod),
              namespace |-> labels.namespace]

\* RouteAlert returns no error.
Routable(labels, routes) == labels.alertname \in DOMAIN routes /\ HasTarget(labels)

\* The spec it returns: GitOps with approval, and no GitHub configuration.
RouteAlert(labels, routes) ==
    [target |-> ExtractTarget(labels), action |-> routes[labels.alertname],
     severity |-> labels.severity, mode |-> "GitOps", requireApproval |-> TRUE,
     ttl |-> TRUE, github |-> FALSE]
=============================================================================
