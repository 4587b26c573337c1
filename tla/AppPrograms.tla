------------------------------ MODULE AppPrograms ------------------------------
(***************************************************************************)
(* The applications of pkg/app, as the commands that each of their methods *)
(* runs.  A manifest is the set of the objects it lists; what distinguishes *)
(* two manifests of one object is its "spec".  Commands run one at a time, *)
(* and the first that fails ends the method (t.Fatalf).                    *)
(***************************************************************************)
EXTENDS Naturals, Sequences

\* An object of the cluster.  "mounts" names the secrets and config maps that
\* the pods of a workload cannot start without.
Object(kind, ns, name, spec) ==
  [kind |-> kind, ns |-> ns, name |-> name, spec |-> spec, mounts |-> {}]

Deployment(ns, name, spec) == Object("Deployment", ns, name, spec)
Namespace(name) == Object("Namespace", "", name, "")
Key(o) == <<o.kind, o.ns, o.name>>
Keys(S) == {Key(o) : o \in S}

\* A command: what it does ("do"), to which objects, and whether it is the first
\* of its call.  The retries of one command are not told apart (see Harness).
Command(do, objs) == [do |-> do, objs |-> objs, first |-> TRUE]

ApplyTemplate(objs)   == <<Command("apply", objs)>>
\* Not retried; what does not exist is no error (--ignore-not-found).
DeleteFromTemplate(objs) == <<Command("delete", objs)>>
DeleteResource(kind, ns, name) == <<Command("delete", {Object(kind, ns, name, "")})>>
CreateNamespace(ns)   == <<Command("apply", {Namespace(ns)})>>
DeleteNamespace(ns)   == <<Command("deleteNamespace", {Namespace(ns)})>>
RecreateNamespace(ns) == DeleteNamespace(ns) \o CreateNamespace(ns)

\* oc create fails if the object exists: it is deleted first.
CreateFromFiles(o) == <<Command("delete", {o}), Command("create", {o})>>
CreateTLSSecret(o) == <<Command("delete", {o}), Command("create", {o})>>

\* GetProxy, AnyResourceExist, GetRouteURL: they change nothing, and may fail.
Ask == <<Command("ask", {})>>

\* WaitDeploymentRolloutComplete(ns, names...): one time limit for all of them.
Rollout(ns, names) ==
  [i \in 1..Len(names) |->
     [Command("rollout", {Deployment(ns, names[i], "")}) EXCEPT !.first = (i = 1)]]

WaitCondition(o) == <<Command("waitFor", {o})>>

App(install, wait, uninstall) ==
  [install |-> install, wait |-> wait, uninstall |-> uninstall]

\* An application with one manifest and one deployment.
Template(ns, objs, deployment) ==
  App(ApplyTemplate(objs), Rollout(ns, <<deployment>>), DeleteFromTemplate(objs))

------------------------------------------------------------------------------
\* Httpbin, HttpbinNoSidecar, HttpbinTproxy: name is "httpbin", and spec the
\* variant; HttpbinV1 and HttpbinV2 share their service and its account.
Httpbin(ns, name, spec) ==
  Template(ns, {Object("ServiceAccount", ns, "httpbin", ""),
                Object("Service", ns, "httpbin", ""),
                Deployment(ns, name, spec)}, name)

Echo(ns) ==
  Template(ns, {Object("Service", ns, "tcp-echo", "9000, 9001"),
                Deployment(ns, "tcp-echo", "")}, "tcp-echo")

EchoV1(ns) ==
  Template(ns, {Object("Service", ns, "tcp-echo", "9000"),
                Deployment(ns, "tcp-echo-v1", "")}, "tcp-echo-v1")

EchoV2(ns) ==
  Template(ns, {Object("Service", ns, "tcp-echo", "9000"),
                Deployment(ns, "tcp-echo-v2", "")}, "tcp-echo-v2")

Fortio(ns) ==
  Template(ns, {Object("Service", ns, "fortio", ""),
                Deployment(ns, "fortio-deploy", "")}, "fortio-deploy")

SleepTemplate(ns, spec) ==
  {Object("ServiceAccount", ns, "sleep", ""), Object("Service", ns, "sleep", ""),
   Deployment(ns, "sleep", spec)}

\* Sleep, SleepNoSidecar, SleepTroxy, SleepSecurityContext.  The values of the
\* manifest are asked of the cluster, to delete it as well.
Sleep(ns, spec) ==
  App(Ask \o ApplyTemplate(SleepTemplate(ns, spec)),
      Rollout(ns, <<"sleep">>),
      Ask \o DeleteFromTemplate(SleepTemplate(ns, spec)))

redisTemplate(ns) ==
  {Object("ServiceAccount", ns, "redis", ""), Object("Service", ns, "redis", ""),
   Deployment(ns, "redis", "")}

\* The namespace is created, and not deleted.
Redis(ns) ==
  App(CreateNamespace(ns) \o ApplyTemplate(redisTemplate(ns)),
      Rollout(ns, <<"redis">>),
      DeleteFromTemplate(redisTemplate(ns)))

GrpCurl(ns) ==
  LET job == Object("Job", ns, "grpcurl", "")
  IN  App(ApplyTemplate({job}), WaitCondition(job), DeleteFromTemplate({job}))

minioTemplate(ns) ==
  {Object("PersistentVolumeClaim", ns, "minio-pv-claim", ""),
   Deployment(ns, "minio", ""),
   Object("Service", ns, "minio", ""), Object("Route", ns, "minio-route", "")}

\* The secret is made of the route's host, and not deleted.
Minio(ns) ==
  App(Ask \o ApplyTemplate(minioTemplate(ns)) \o Rollout(ns, <<"minio">>) \o Ask
          \o ApplyTemplate({Object("Secret", ns, "my-storage-secret", "")}),
      Rollout(ns, <<"minio">>),
      DeleteFromTemplate(minioTemplate(ns)))

BookinfoDeployments ==
  <<"details-v1", "productpage-v1", "ratings-v1", "reviews-v1", "reviews-v2", "reviews-v3">>

\* The four services stand for their accounts, too.
BookinfoTemplate(ns) ==
  {Object("Service", ns, "bookinfo", "")} \cup
  {Deployment(ns, BookinfoDeployments[i], "") : i \in DOMAIN BookinfoDeployments}

BookinfoGateway(ns) ==
  {Object("Gateway", ns, "bookinfo-gateway", ""), Object("VirtualService", ns, "bookinfo", "")}

\* The four destination rules, of which mTLS changes the spec.
BookinfoRuleAll(ns, mTLS) == {Object("DestinationRule", ns, "all", mTLS)}

\* Bookinfo, BookinfoWithMTLS: without mTLS or with it, the same is deleted.
Bookinfo(ns, mTLS) ==
  App(ApplyTemplate(BookinfoGateway(ns)) \o ApplyTemplate(BookinfoRuleAll(ns, mTLS))
        \o ApplyTemplate(BookinfoTemplate(ns)),
      Rollout(ns, BookinfoDeployments),
      DeleteFromTemplate(BookinfoRuleAll(ns, "")) \o DeleteFromTemplate(BookinfoGateway(ns))
        \o DeleteFromTemplate(BookinfoTemplate(ns)))

nginxYamlFile(ns) ==
  {Object("Service", ns, "my-nginx", ""),
   [Deployment(ns, "my-nginx", "") EXCEPT
      !.mounts = {"nginx-ca-certs", "nginx-server-certs", "nginx-configmap"}]}

\* What Nginx (conf is "nginx"), NginxExternalTLS ("tls") and NginxExternalMTLS
\* ("mtls") install and uninstall.
NginxInstall(ns, conf) ==
  LET certs == IF conf = "nginx" THEN "nginx" ELSE "mesh-external"
  IN  CreateFromFiles(Object("Secret", ns, "nginx-ca-certs", ""))
        \o CreateTLSSecret(Object("Secret", ns, "nginx-server-certs", certs))
        \o CreateFromFiles(Object("ConfigMap", ns, "nginx-configmap", conf))
        \o ApplyTemplate(nginxYamlFile(ns))

NginxUninstall(ns) ==
  DeleteFromTemplate(nginxYamlFile(ns))
    \o DeleteResource("Secret", ns, "nginx-server-certs")
    \o DeleteResource("Secret", ns, "nginx-ca-certs")
    \o DeleteResource("ConfigMap", ns, "nginx-configmap")

Nginx(ns, conf) ==
  App(NginxInstall(ns, conf), Rollout(ns, <<"my-nginx">>), NginxUninstall(ns))

================================================================================
