SPECIFICATION PeersGoOnSpec
CONSTANTS
    main = main
    gui = gui
    script = script
    Nobody = Nobody
    Main = main
    Frontends <- MCThree
    Kinds <- MCKinds
    MAX_COMMANDS_PENDING = 2
INVARIANTS NoUseAfterFree PopFindsACommand QueuedAreWaiting
PROPERTIES ServesInOrder AcceptedCallsReturn StopCompletes
