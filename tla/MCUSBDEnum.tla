----------------------------- MODULE MCUSBDEnum ------------------------------
(* Instances of USBDEnum: packets of two bytes; a device descriptor of two   *)
(* packets, the second short; a configuration whose first section is just    *)
(* its header and whose length is a multiple of the packet size, and one of  *)
(* three sections that end inside packets.                                   *)
EXTENDS USBDEnum

MCConfigs == <<(<<1, 3>>), (<<2, 1, 2>>)>>
MCStrings == <<2, 3>>
MCLanguages == <<9>>
MCAlternates == {0, 1}

Plain(kinds, values, lengths) ==
    {[kind |-> k, value |-> v, length |-> n] : k \in kinds, v \in values, n \in lengths}

Transfers ==
    Plain({"GET_DEVICE"}, {0}, {2, 8}) \cup Plain({"GET_CONFIG"}, {0, 1}, {1, 4, 8})
    \cup Plain({"GET_CONFIG"}, {2}, {8}) \cup Plain({"GET_STRING"}, {<<0, 0>>, <<9, 1>>, <<7, 1>>}, {8})
    \cup Plain({"GET_OTHER"}, {0}, {8}) \cup Plain({"CLASS_IN"}, {0}, {3, 4})
    \cup Plain({"CLASS_OUT"}, {0}, {1, 3, 4})
    \cup Plain({"CLASS_NONE", "CLASS_BAD"}, {0}, {0})
Features ==
    Plain({"SET_FEATURE", "CLEAR_FEATURE"}, {1, 2}, {0})
    \cup Plain({"FEATURE_OTHER"}, {0}, {0}) \cup Plain({"SYNC_FRAME"}, {0}, {2})
    \cup Plain({"GET_STATUS_DEVICE", "GET_STATUS_INTERFACE", "GET_STATUS_OTHER"}, {0}, {2})
    \cup Plain({"SET_HALT", "CLEAR_HALT"}, {<<"in", 1>>, <<"in", 3>>}, {0})
    \cup Plain({"GET_STATUS_EP"}, {<<"in", 1>>, <<"in", 3>>}, {2})
    \cup Plain({"GET_CONFIG"}, {0}, {8}) \cup Plain({"CLASS_OUT"}, {0}, {3})
Settings ==
    Plain({"SET_ADDRESS"}, {1, 2}, {0}) \cup Plain({"GET_CONFIGURATION"}, {0}, {1})
    \cup Plain({"SET_CONFIGURATION"}, {0, 2, 3}, {0})
    \cup Plain({"SET_INTERFACE"}, {0, 1, 2}, {0}) \cup Plain({"GET_INTERFACE"}, {0, 1, 2}, {1})
    \cup Plain({"GET_DEVICE"}, {0}, {2}) \cup Plain({"GET_STRING"}, {<<7, 1>>}, {8})

MCMenus == {Transfers, Features, Settings}
MCTransfers == {Transfers}

\* Requests that USBDGetDescriptor and USBDSetFeature do not recognise as wrong: the
\* second string of a language that has one, and a feature that is not the wakeup.
MCStringBehind == {Plain({"GET_STRING"}, {<<9, 2>>}, {8}) \cup Transfers}
MCOtherFeature == {Plain({"SET_FEATURE"}, {3}, {0}) \cup Features}
=============================================================================
