CONSTANT Input <- Typed
SPECIFICATION UartSpec
PROPERTIES ImplementsStream EveryByteArrives JoinsAwakeListener
CHECK_DEADLOCK FALSE
