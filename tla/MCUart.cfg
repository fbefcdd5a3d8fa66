\* One-bit bytes; a byte takes 2 clocks or, with UBRR0 left at 0, never ends.
CONSTANTS
    NumVectors = 3
    NoVector = 7
    USART0_RX = 0
    USART0_UDRE = 1
    USART0_TX = 2
    Byte = {0, 1}
    NoByte = NoByte
    BaudValues = {0, 2}
    ControlValues <- MCControlValues
    PollInterval = 2
SPECIFICATION FairSpec
INVARIANTS TxRequestIsTrue
PROPERTIES SendsInOrder TimedByteIsSent ReceivedByteArrives
