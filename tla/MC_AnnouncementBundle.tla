----------------------- MODULE MC_AnnouncementBundle -----------------------
(* What there is to announce, for AnnouncementBundle.                      *)
EXTENDS AnnouncementBundle

NameOf(name, descr) == [name |-> name, descr |-> descr, lang |-> "en"]
Info(method, obj, area, mbr, family) ==
    [method |-> method, obj |-> obj, area |-> area, fsa |-> None, mbr |-> mbr, family |-> family]
Streaming == [mode |-> "STREAMING", distrUri |-> "http://d", ingUri |-> None,
              ids |-> <<"a.mpd", None>>]

\* Distribution sessions come and go: one whose SSM has no address to show, and
\* one whose source and destination are of two families.
Versions ==
    <<[names |-> <<NameOf("one", "first")>>, schedule |-> None, range |-> <<None, None>>,
       info |-> ("k1" :> Info("OBJECT", Streaming, "area", 1, "matching"))],
      [names |-> <<NameOf("one", "first"), None>>, schedule |-> <<"w1">>, range |-> <<1, 2>>,
       info |-> ("k1" :> Info("OBJECT", Streaming, None, 2, "matching")) @@
                ("k2" :> Info("PACKET", None, None, 1, "matching"))],
      [names |-> <<NameOf("two", None)>>, schedule |-> <<"w2">>, range |-> <<2, 3>>,
       info |-> ("k2" :> Info("PACKET", None, None, 1, "matching"))],
      [names |-> <<NameOf("two", "second")>>, schedule |-> <<"w2">>, range |-> <<2, 3>>,
       info |-> ("k3" :> Info("PACKET", None, None, 3, "unaddressed")) @@
                ("k4" :> Info("PACKET", None, None, 3, "mixed"))]>>

RepairServer == [locator |-> "http://r", backOff |-> <<1, 2>>]
=============================================================================
