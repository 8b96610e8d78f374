SPECIFICATION Spec
CONSTANTS
  GsmTexts <- MCGsmTexts
  Latin1Texts <- MCLatin1Texts
  CommonTexts <- MCCommonTexts
  UnicodeTexts <- MCUnicodeTexts
  MaxOut = 5
INVARIANTS DecodedByPosition DecodesWhatWasEncoded Ucs2IsBigEndian
CHECK_DEADLOCK FALSE
