\* One-bit bytes; the program sets one baud rate, 2 clocks to a byte.
CONSTANTS
    NumVectors = 3
    NoVector = 7
    USART0_RX = 0
    USART0_UDRE = 1
    USART0_TX = 2
    Byte = {0, 1}
    NoByte = NoByte
    BaudValues = {2}
    ControlValues <- MCControlValues
    PollInterval = 2
SPECIFICATION Spec
PROPERTIES BaudTimerSetWhenIdle
