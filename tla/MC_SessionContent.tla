-------------------------- MODULE MC_SessionContent --------------------------
(* Requests for SessionContent: every field takes at least two values, and  *)
(* the values are ones that a wrong conversion would confuse.               *)
EXTENDS SessionContent

Plmn == [mcc |-> <<0, 0, 1>>, mnc |-> <<0, 1>>]
TaiWith(code, nid) == [plmn |-> Plmn, tac |-> code, nid |-> nid]
AreaOf(taiList, ncgiList) == [taiList |-> taiList, ncgiList |-> ncgiList]

\* 0x0010 and 0x000A, 16 and 10
AreaTen == AreaOf(<<TaiWith(<<0, 0, 1, 0>>, None)>>, None)
AreaA == AreaOf(<<None, TaiWith(<<0, 0, 0, 10>>, None)>>, None)
AreaCells == AreaOf(<<TaiWith(<<0, 0, 1, 0>>, <<1, 2>>)>>,
                    <<[tai |-> TaiWith(<<1>>, None),
                       cells |-> <<None, [plmn |-> Plmn, cell |-> <<15, 15>>, nid |-> <<10>>]>>]>>)

Ext == [geoList |-> <<[point |-> [lon |-> 1, lat |-> 2]]>>,
        civicList |-> <<[country |-> "DE", A1 |-> "Bayern", HNO |-> "1"]>>]

Rate(n, unit) == [value |-> n, unit |-> unit]
Media == [type |-> "VIDEO", max |-> Rate(2, "mbps"), min |-> None,
          codecs |-> <<"c1", None, "c2", "c3", "c4">>]
Qos == [fiveQi |-> 9, guaranteed |-> Rate(1, "gbps"), max |-> None, window |-> 70000,
        arp |-> [level |-> 300, capability |-> "MAY_PREEMPT", vulnerability |-> "UNKNOWN"]]
Comp(id, media, qos) == [id |-> id, flows |-> <<"f1", None>>, priority |-> 1, media |-> media,
                         qosRef |-> None, qos |-> qos]
Serv1 == [comps |-> <<Comp(1, Media, None), None>>, afAppId |-> "app", ambr |-> Rate(1, "mbps"),
          priority |-> None]
Serv2 == [comps |-> <<Comp(1, Media, None), Comp(1, None, Qos)>>, afAppId |-> None,
          ambr |-> None, priority |-> 257]

Host(h) == [v4 |-> h, v6 |-> None]
Ssm(src, dest) == [src |-> src, dest |-> dest]
Good == Ssm(Host("a4"), Host("m4"))
Both == Ssm([v4 |-> None, v6 |-> "a6"], [v4 |-> "m4", v6 |-> "m6"])
Unknown == Ssm(Host("nowhere"), Host("m4"))
NoSource == Ssm([v4 |-> None, v6 |-> None], Host("m4"))

HostFamilies == [h \in {"a4", "m4", "a6", "m6", "nowhere"} |->
                    CASE h = "nowhere" -> << >>
                      [] h \in {"a4", "m4"} -> <<"v4">>
                      [] OTHER -> <<"v6">>]

TwoTunnels == <<[family |-> "v4", addr |-> "t4", port |-> 1],
                [family |-> "v6", addr |-> "t6", port |-> 2]>>

Obj(method, ids) == [mode |-> "SINGLE", method |-> method, ids |-> ids, ingest |-> "uri",
                     base |-> None]
Pkt(mode) == [mode |-> mode, ingMethod |-> "UNICAST", addrs |-> "af"]

Object == [mbsServInfo |-> Serv1, mbsFSAId |-> <<0, 0, 0, 0, 1, 0>>, tgtServAreas |-> AreaTen,
           maxContBitRate |-> Rate(1, "mbps"), maxContDelay |-> None, distrMethod |-> "OBJECT",
           fecConfig |-> None, objDistrInfo |-> Obj("PULL", <<"i1", "i2">>),
           pckDistrInfo |-> None, trafficMarkingInfo |-> None, extTgtServAreas |-> Ext,
           restrictedFlag |-> TRUE, multiplexedServFlag |-> None, nrRedCapUeInfo |-> None,
           associatedSessionId |-> Both, mbsSessionId |-> Good, locationDependent |-> TRUE,
           mbsDistSessState |-> "INACTIVE"]

\* Only unrestricted fields differ; some are left out.
Moved == [Object EXCEPT !.tgtServAreas = AreaA, !.mbsServInfo = None,
                        !.mbsFSAId = <<0, 0, 0, 0, 0, 10>>, !.mbsDistSessState = "ACTIVE"]
Pushing == [Object EXCEPT !.objDistrInfo = Obj("PUSH", <<"i3", "i4">>), !.mbsServInfo = Serv2,
                          !.tgtServAreas = AreaCells, !.restrictedFlag = FALSE,
                          !.maxContBitRate = Rate(2, "kbps"), !.mbsDistSessState = None]
Packet == [Object EXCEPT !.distrMethod = "PACKET", !.objDistrInfo = None,
                         !.pckDistrInfo = Pkt("PACKET_PROXY"), !.extTgtServAreas = None,
                         !.associatedSessionId = Unknown, !.fecConfig = "fec"]
Forward == [Packet EXCEPT !.pckDistrInfo = Pkt("PACKET_FORWARD_ONLY"),
                          !.tgtServAreas = AreaCells]
\* An object session whose packet info counts for its flow
Stray == [Object EXCEPT !.pckDistrInfo = Pkt("PACKET_FORWARD_ONLY")]
Unresolved == [Object EXCEPT !.mbsSessionId = Unknown]
Sourceless == [Object EXCEPT !.mbsSessionId = NoSource]

SomeRequests == {Object, Moved, Pushing, Packet, Forward, Stray, Unresolved, Sourceless}
=============================================================================
