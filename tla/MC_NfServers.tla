---------------------------- MODULE MC_NfServers -----------------------------
(* Configurations for NfServers: the shipped one, and ones in which the    *)
(* listener has a port of its own, shares a server, or has none; sections  *)
(* that throw, that end the loop, and an IPv6 address.                     *)
EXTENDS NfServers

A(h, p)  == [family |-> "v4", host |-> h, port |-> p]
Section(k, n, bs)  == [key |-> k, node |-> n, blocks |-> bs, value |-> None]
Scalar(k, v)       == [key |-> k, node |-> "scalar", blocks |-> <<>>, value |-> v]
Doc(s, af)         == [mbsf |-> s, mbsaf |-> af]
Api(h, p)          == [addrs |-> <<A(h, p)>>]
Listener(h, p)     == [host |-> h, port |-> p]

Shipped == <<
    Section("mbsUserServices", "sequence", <<Api("lo", 7777)>>),
    Section("mbsUserDataIngestSession", "sequence", <<Api("lo", 7777), Api("lo", 8000)>>),
    Section("serverResponseCacheControl", "sequence", <<[defaultMaxAge |-> "60"]>>),
    Section("userServiceAnnouncement", "mapping", <<[docRoot |-> "dir", mbr |-> "10 Mbps"]>>),
    Scalar("activeUserServicesSoftLimit", "50")>>

MCDocuments == {
    Doc(Shipped, {A("lo", 8888)}),
    Doc(Append(Shipped, Section("notificationListener", "mapping", <<Listener("lo", 8000)>>)), {}),
    Doc(<<Section("notificationListener", "sequence",
                  <<Listener("lo", 9000), Listener("lo", None), Listener("unknown", 1)>>),
          Scalar("objectRepairParameters", "x"),
          Section("mbsUserServices", "mapping", <<Api("lo", 80)>>)>>, {}),
    Doc(<<Section("mbsUserServices", "mapping", <<Api("any", 0)>>),
          Section("notificationListener", "mapping", <<Listener(None, 0)>>)>>, {}),
    Doc(<<Section("mbsUserServices", "mapping",
                  <<[addrs |-> <<A("lo", 80), [A("lo", 80) EXCEPT !.family = "v6"]>>]>>)>>, {}),
    Doc(<<Section("userServiceAnnouncement", "mapping", <<[mbr |-> "1 Gbps"]>>)>>, {}),
    Doc(<<Scalar("activeDistributionSessionsSoftLimit", "bad")>>, {}),
    Doc(<<Section("notificationListener", "other", <<>>)>>, {})}

MCSbiServers == <<A("lo", 7777)>>

R(s, v, res, m) == [parses |-> TRUE, service |-> s, version |-> v, resource |-> res,
                    method |-> m, dist |-> None]

MCRequests == {
    R("nmbsf-mbs-us", "v1", "mbs-user-services", "POST"),
    R("nmbsf-mbs-ud-ingest", "v1", "sessions", "DELETE"),
    R("nmbsf-mbs-ud-ingest", "v1", "status-subscriptions", "POST"),
    R("nmbsf-mbs-ud-ingest", "v2", "sessions", "POST"),
    R("nnrf-nfm", "v1", "nf-status-notify", "POST"),
    R("nnrf-nfm", "v1", "nf-status-notify", "GET"),
    [R("nmbsf-mbs-us", "v1", "mbs-user-services", "GET") EXCEPT !.parses = FALSE]}
=============================================================================
