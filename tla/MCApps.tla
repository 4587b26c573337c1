--------------------------------- MODULE MCApps ---------------------------------
(***************************************************************************)
(* The tests of the repository that Apps is checked with.                  *)
(***************************************************************************)
EXTENDS Apps

Alone(t) == [outer |-> t, subs |-> <<>>]
NoTest == Test(<<>>, <<>>, TRUE)

\* TestTLSOrigination: its first subtest leaves nginx for the second one.
TLSOrigination ==
  [outer |-> Test(<<Sleep("bookinfo", "sidecar")>>, <<Sleep("bookinfo", "sidecar")>>, TRUE),
   subs |-> <<Test(<<Nginx("mesh-external", "tls")>>, <<>>, TRUE),
              Test(<<Nginx("mesh-external", "mtls")>>, <<Nginx("mesh-external", "mtls")>>, TRUE)>>]

\* TestInjectionInPrivelegedPods: two variants of one application in turn.
PrivilegedPods ==
  [outer |-> Test(<<Httpbin("foo", "httpbin", "sidecar")>>,
                  <<Httpbin("foo", "httpbin", "sidecar")>>, TRUE),
   subs |-> [i \in 1..2 |-> LET sleep == <<Sleep("foo", <<"uid", i>>)>> IN Test(sleep, sleep, TRUE)]]

TcpTrafficShifting ==
  LET three == <<Sleep("foo", "sidecar"), EchoV1("foo"), EchoV2("foo")>>
  IN  Alone(Test(three, three, TRUE))

\* TestRateLimiting registers its cleanup after the installation.
RateLimiting ==
  LET two == <<Bookinfo("bookinfo", ""), Redis("redis")>>
  IN  Alone(Test(two, two \o <<Drop("redis")>>, FALSE))

Mirroring ==
  Alone(Test(<<Httpbin("bookinfo", "httpbin-v1", "v1"), Httpbin("bookinfo", "httpbin-v2", "v2"),
               Sleep("bookinfo", "sidecar")>>, <<Recreate("bookinfo")>>, TRUE))

TestSSL ==
  LET one == <<Bookinfo("bookinfo", "mTLS")>> IN Alone(Test(one, one, TRUE))

Grpc ==
  LET one == <<GrpCurl("foo")>> IN Alone(Test(one, one, TRUE))

TempoStack ==
  LET one == <<Minio("bookinfo")>> IN Alone(Test(one, one, TRUE))

\* Tests of a package after one another, in one namespace.
InTurn ==
  [outer |-> NoTest,
   subs |-> <<Test(<<Sleep("foo", "sidecar"), Echo("foo")>>, <<Recreate("foo")>>, TRUE),
              Test(<<Httpbin("foo", "httpbin", "tproxy"), Sleep("foo", "tproxy")>>,
                   <<Httpbin("foo", "httpbin", "tproxy"), Sleep("foo", "tproxy")>>, FALSE),
              Test(<<Httpbin("foo", "httpbin", "sidecar"), Fortio("foo")>>,
                   <<Recreate("foo")>>, TRUE)>>]

\* The subtest of TestEgressTLSOrigination, the cleanup of the test around it, which
\* runs even if that of the subtest fails, and TestTLSOriginationSDS (of all three
\* what is in mesh-external): what the first leaves is there for the others.
EgressInTurn ==
  LET nginx == Nginx("mesh-external", "tls")
      recreate == <<Recreate("mesh-external")>>
  IN  [outer |-> NoTest,
       subs |-> <<Test(<<nginx>>, <<nginx>>, TRUE),
                  Test(<<>>, recreate, TRUE),
                  Test(<<Nginx("mesh-external", "mtls")>>, recreate, TRUE)>>]

Tests == {TLSOrigination, PrivilegedPods, TcpTrafficShifting, RateLimiting, Mirroring,
          TestSSL, Grpc, TempoStack, InTurn,
          EgressInTurn}
NginxTests == {TLSOrigination}

BasicSetup == {Namespace(ns) : ns \in {"bookinfo", "foo", "mesh-external"}}

================================================================================
