---------------------------- MODULE MCRendezvous ----------------------------
EXTENDS Rendezvous

Peripheral(name, services, properties, characteristics) ==
    [name |-> name, services |-> services, properties |-> properties,
     characteristics |-> characteristics]

Speaker == Peripheral({}, {}, "some", {})
Vanished == Peripheral({}, {}, "error", {})
Unread == Peripheral({"LE-", "bose"}, {}, "none", {"RWN_SECURE"})
Headset == Peripheral({"LE-", "bose"}, {DocumentedServiceUuid}, "some", {"RWN_UNSECURE"})
Dongle == Peripheral({"adjuster"}, {}, "some", {})

SomeSurroundings == {
    << >>, <<Speaker, Unread>>, <<Speaker, Headset>>, <<Vanished, Headset>>,
    <<Headset, Vanished>>, <<Dongle, Headset>>}

\* Headphones the user has given a name of his own.
RenamedSurroundings ==
    {<<Peripheral({"LE-"}, {DocumentedServiceUuid}, "some", {"RWN_SECURE"})>>}
=============================================================================
